---- MODULE Spec2Model ----
(***************************************************************************)
(* Model of polybar's tray_client (src/x11/tray_client.cpp): one embedded  *)
(* tray icon, its embedder (wrapper) window, its XEMBED state, its         *)
(* visibility policy and its background slice.                             *)
(*                                                                         *)
(* Every operation of the class is one action.  An action records the      *)
(* requests it issued, in order, in `log`; each error-checked request may  *)
(* fail, in which case the request has no effect on the X server, the      *)
(* exception leaves the handler and the rest of the handler is skipped.    *)
(***************************************************************************)
EXTENDS Integers, Sequences, FiniteSets, TLC

(* ---------------------------- bounds ----------------------------------- *)
MaxCoord == 1       \* coordinates range over 0..MaxCoord
MaxDim == 2         \* widths and heights range over 1..MaxDim
MaxVersion == 1     \* XEMBED versions range over 0..MaxVersion

Coords == 0 .. MaxCoord
Dims == 1 .. MaxDim
Versions == 0 .. MaxVersion
Origin == [x |-> 0, y |-> 0]
\* Positions near the origin; some differ in x only, some in y only.
Positions == {p \in [x : Coords, y : Coords] : p.x + p.y <= MaxCoord}
\* Non-square sizes, so that a width is never mistaken for a height.
Sizes == {[w |-> d, h |-> MaxDim + 1 - d] : d \in Dims}
\* The inputs of the specification that exercises every operation: geometry
\* is kept to one size and two positions there.
OneSize == {[w |-> MaxDim, h |-> 1]}
TwoPositions == {Origin, [x |-> MaxCoord, y |-> 0]}

(* ---------------------------- windows ---------------------------------- *)
Root == "root"          \* m_connection.root()
Parent == "parent"      \* the bar window passed to the constructor
Client == "client"      \* the icon window (m_client)
Wrapper == "wrapper"    \* the embedder window (m_wrapper)
None == "none"          \* XCB_NONE / a null pointer

VARIABLES
  lifecycle,            \* "alive" | "failed" (constructor threw) | "destroyed"
  m_size,               \* target size given to the constructor
  m_pos,                \* cached position of the embedder
  m_mapped,             \* stored mapped flag
  m_hidden,             \* owner-requested suppression
  m_xembed_supported,   \* result of the last xembed::query
  m_xembed,             \* cached XEMBED info [version, mapped]
  m_bg_slice,           \* current background slice, or NoSlice
  xsrv,                 \* the X server's view of the two windows
  lastOp,               \* the operation that ran last
  args,                 \* the arguments it was called with
  threw,                \* whether it left by an exception
  log                   \* the requests it issued, in order

vars == <<lifecycle, m_size, m_pos, m_mapped, m_hidden, m_xembed_supported,
          m_xembed, m_bg_slice, xsrv, lastOp, args, threw, log>>

entity == <<m_size, m_pos, m_mapped, m_hidden, m_xembed_supported, m_xembed,
            m_bg_slice>>

\* The data members of tray_client and what they may hold.
TypeOK ==
  /\ lifecycle \in {"alive", "failed", "destroyed"}
  /\ m_size \in Sizes
  /\ m_pos \in Positions
  /\ m_mapped \in BOOLEAN
  /\ m_hidden \in BOOLEAN
  /\ m_xembed_supported \in BOOLEAN
  /\ m_xembed \in [version : Versions, mapped : BOOLEAN]
  /\ m_bg_slice.id \in 0 .. 2
  /\ threw \in BOOLEAN

(* ---------------------------- requests --------------------------------- *)
\* One issued request (or rendering step).  `checked` requests can fail.
Req(op, win, aux, x, y, w, h, arg, checked) ==
  [op |-> op, win |-> win, aux |-> aux, x |-> x, y |-> y, w |-> w, h |-> h,
   arg |-> arg, checked |-> checked, ok |-> TRUE]

\* The points at which a handler that issues `steps` can throw: 0 is "no
\* failure", i > 0 is "the i-th request fails".
FailPoints(steps) == {0} \cup {i \in 1 .. Len(steps) : steps[i].checked}

\* The requests actually issued when the f-th one fails.
Issued(steps, f) ==
  IF f = 0 THEN steps
  ELSE [i \in 1 .. f |-> IF i = f THEN [steps[i] EXCEPT !.ok = FALSE] ELSE steps[i]]

\* Effect of one successful request on the X server.
ApplyReq(x, r) ==
  CASE r.op = "map_window" -> [x EXCEPT !.mapped[r.win] = TRUE]
    [] r.op = "unmap_window" -> [x EXCEPT !.mapped[r.win] = FALSE]
    [] r.op = "configure_window" ->
         [x EXCEPT !.geom[r.win] = [x |-> r.x, y |-> r.y, w |-> r.w, h |-> r.h]]
    [] r.op = "create_window" ->
         [x EXCEPT !.res = @ \cup {r.win}, !.parent[r.win] = r.aux,
                   !.mapped[r.win] = FALSE,
                   !.geom[r.win] = [x |-> r.x, y |-> r.y, w |-> r.w, h |-> r.h]]
    [] r.op \in {"create_pixmap", "create_gc"} ->
         [x EXCEPT !.res = @ \cup {r.aux}]
    [] r.op = "destroy_window" ->
         [x EXCEPT !.res = @ \ {r.win}, !.mapped[r.win] = FALSE]
    [] r.op = "reparent_window" ->
         [x EXCEPT !.parent[r.win] = r.aux,
                   !.geom[r.win] = [x.geom[r.win] EXCEPT !.x = r.x, !.y = r.y]]
    [] OTHER -> x

RECURSIVE ApplyAll(_, _)
ApplyAll(x, reqs) ==
  IF reqs = <<>> THEN x
  ELSE ApplyAll(IF Head(reqs).ok THEN ApplyReq(x, Head(reqs)) ELSE x, Tail(reqs))

(* ---------------------------- accessors -------------------------------- *)
\* Mutant: the width is taken from the height.
width_from_height == m_size.h

width == m_size.w
height == m_size.h
embedder == Wrapper
client == Client
mapped_get == m_mapped
is_xembed_supported == m_xembed_supported

\* Mutant: the XEMBED mapped bit is ignored.
should_be_mapped_ignores_xembed ==
  IF m_hidden THEN FALSE ELSE TRUE

should_be_mapped ==
  IF m_hidden THEN FALSE
  ELSE IF is_xembed_supported THEN m_xembed.mapped
  ELSE TRUE

(* ---------------------------- background ------------------------------- *)
NoSlice == [id |-> 0, x |-> 0, y |-> 0, w |-> 0, h |-> 0, win |-> None,
            at |-> [x |-> 0, y |-> 0]]

\* background_manager::observe returns a newly allocated slice for the
\* rectangle and window; the new object is distinct from the one the caller
\* still holds.  `at` is where the window was when the slice was requested.
observe(rx, ry, rw, rh, win, held, x) ==
  [id |-> IF held.id = 1 THEN 2 ELSE 1, x |-> rx, y |-> ry, w |-> rw, h |-> rh,
   win |-> win, at |-> [x |-> x.geom[win].x, y |-> x.geom[win].y]]

\* Mutant: the exposure flags of the two clear_area requests are swapped.
clear_window_steps_exposures_swapped ==
  << Req("clear_area", embedder, None, 0, 0, width, height, 1, TRUE),
     Req("clear_area", client, None, 0, 0, width, height, 0, TRUE) >>

clear_window_steps ==
  << Req("clear_area", embedder, None, 0, 0, width, height, 0, TRUE),
     Req("clear_area", client, None, 0, 0, width, height, 1, TRUE) >>

update_bg_steps(slice) ==
  << Req("context_clear", None, None, 0, 0, 0, 0, 0, FALSE),
     Req("paint_slice_SOURCE", None, None, 0, 0, 0, 0, slice.id, FALSE),
     Req("paint_color_OVER", None, None, 0, 0, 0, 0, 0, FALSE),
     Req("surface_flush", None, None, 0, 0, 0, 0, 0, FALSE) >>
  \o clear_window_steps
  \o << Req("flush", None, None, 0, 0, 0, 0, 0, FALSE) >>

observe_background_steps(slice) ==
  << Req("observe", embedder, None, 0, 0, m_size.w % 65536, m_size.h % 65536,
         slice.id, FALSE) >>
  \o update_bg_steps(slice)

HasOp(reqs, op) == \E i \in 1 .. Len(reqs) : reqs[i].op = op

(* ---------------------------- construction ----------------------------- *)
\* Default member initialisers of the class (declared in tray_client.hpp).
m_mapped_init == FALSE
m_hidden_init == FALSE
m_xembed_supported_init == FALSE
m_xembed_init == [version |-> 0, mapped |-> FALSE]
m_pos_init == [x |-> 0, y |-> 0]

\* Mutant: the background slice is observed before the drawing context and
\* the visual are there.
ctor_steps_observe_early(s) ==
  << Req("get_geometry", Client, None, 0, 0, 0, 0, 0, FALSE),
     Req("get_window_attributes", Client, None, 0, 0, 0, 0, 0, FALSE),
     Req("create_window", Wrapper, Parent, 0, 0, s.w, s.h, 0, TRUE),
     Req("create_pixmap", Wrapper, "pixmap", 0, 0, s.w, s.h, 0, TRUE),
     Req("change_window_attributes", Wrapper, "pixmap", 0, 0, 0, 0, 0, TRUE),
     Req("observe", Wrapper, None, 0, 0, s.w % 65536, s.h % 65536, 1, FALSE),
     Req("create_gc", None, "gc", 0, 0, 0, 0, 0, TRUE),
     Req("visual_type_for_id", None, None, 0, 0, 0, 0, 0, TRUE) >>

\* The requests of the constructor up to the point where the rendering
\* surface exists; observe_background() follows.
ctor_steps(s) ==
  << Req("get_geometry", Client, None, 0, 0, 0, 0, 0, FALSE),
     Req("get_window_attributes", Client, None, 0, 0, 0, 0, 0, FALSE),
     Req("create_window", Wrapper, Parent, 0, 0, s.w, s.h, 0, TRUE),
     Req("create_pixmap", Wrapper, "pixmap", 0, 0, s.w, s.h, 0, TRUE),
     Req("change_window_attributes", Wrapper, "pixmap", 0, 0, 0, 0, 0, TRUE),
     Req("create_gc", None, "gc", 0, 0, 0, 0, 0, TRUE),
     Req("visual_type_for_id", None, None, 0, 0, 0, 0, 0, TRUE) >>

\* The X server before the constructor runs: the icon window exists with a
\* geometry and a map state of its own.
XBefore(cgeom, cmapped) ==
  [mapped |-> [win \in {Client, Wrapper} |-> IF win = Client THEN cmapped ELSE FALSE],
   geom |-> [win \in {Client, Wrapper} |->
               IF win = Client THEN cgeom ELSE [x |-> 0, y |-> 0, w |-> 0, h |-> 0]],
   parent |-> [win \in {Client, Wrapper} |-> IF win = Client THEN Root ELSE None],
   res |-> {}]

InitOver(TargetSizes, ClientSizes, ClientPositions) ==
  \E s \in TargetSizes, csize \in ClientSizes, cpos \in ClientPositions :
    /\ m_size = s
    /\ m_pos = m_pos_init
    /\ m_mapped = m_mapped_init
    /\ m_hidden = m_hidden_init
    /\ m_xembed_supported = m_xembed_supported_init
    /\ m_xembed = m_xembed_init
    /\ LET x0 == XBefore([x |-> cpos.x, y |-> cpos.y, w |-> csize.w, h |-> csize.h],
                         FALSE)
           xc == ApplyAll(x0, ctor_steps(s))
           slice == observe(0, 0, s.w % 65536, s.h % 65536, Wrapper, NoSlice, xc)
           steps == ctor_steps(s) \o observe_background_steps(slice)
       IN \E f \in FailPoints(steps) :
            /\ log = Issued(steps, f)
            /\ threw = (f # 0)
            /\ lifecycle = IF f = 0 THEN "alive" ELSE "failed"
            /\ m_bg_slice = IF HasOp(log, "observe") THEN slice ELSE NoSlice
            /\ xsrv = ApplyAll(x0, log)
    /\ lastOp = "construct"
    /\ args = <<s.w, s.h>>

Init == InitOver(OneSize, OneSize, {Origin})
InitGeom == InitOver(Sizes, Sizes, TwoPositions)

(* ---------------------------- operations ------------------------------- *)
\* Common tail of every operation: issue `steps`, the f-th of which fails.
Run(name, a, steps, f) ==
  /\ lastOp' = name
  /\ args' = a
  /\ log' = Issued(steps, f)
  /\ threw' = (f # 0)
  /\ xsrv' = ApplyAll(xsrv, Issued(steps, f))
  /\ UNCHANGED lifecycle

MapReq(win) == Req("map_window", win, None, 0, 0, 0, 0, 0, TRUE)
UnmapReq(win) == Req("unmap_window", win, None, 0, 0, 0, 0, 0, TRUE)

\* Mutant: no early return when the state is already right.
ensure_state_steps_always ==
  IF should_be_mapped
    THEN << MapReq(embedder), MapReq(client) >>
    ELSE << UnmapReq(client), UnmapReq(embedder) >>

\* Mutant: the embedder is unmapped before the icon.
ensure_state_steps_unmap_swapped ==
  IF should_be_mapped = m_mapped THEN <<>>
  ELSE IF should_be_mapped
    THEN << MapReq(embedder), MapReq(client) >>
    ELSE << UnmapReq(embedder), UnmapReq(client) >>

\* Mutant: only the icon window is mapped, the embedder is left alone.
ensure_state_steps_maps_icon_only ==
  IF should_be_mapped
    THEN << MapReq(client) >>
    ELSE << UnmapReq(client), UnmapReq(embedder) >>

\* Mutant: the icon is mapped before the embedder.
ensure_state_steps_map_swapped ==
  IF should_be_mapped = m_mapped THEN <<>>
  ELSE IF should_be_mapped
    THEN << MapReq(client), MapReq(embedder) >>
    ELSE << UnmapReq(client), UnmapReq(embedder) >>

ensure_state_steps ==
  IF should_be_mapped = m_mapped THEN <<>>
  ELSE IF should_be_mapped
    THEN << MapReq(embedder), MapReq(client) >>
    ELSE << UnmapReq(client), UnmapReq(embedder) >>

\* Mutant: a successful call stores the new state in the mapped flag.
ensure_state_sets_flag ==
  /\ lifecycle = "alive"
  /\ \E f \in FailPoints(ensure_state_steps) :
       /\ Run("ensure_state", <<>>, ensure_state_steps, f)
       /\ m_mapped' = IF f = 0 THEN should_be_mapped ELSE m_mapped
  /\ UNCHANGED <<m_size, m_pos, m_hidden, m_xembed_supported, m_xembed, m_bg_slice>>

ensure_state ==
  /\ lifecycle = "alive"
  /\ \E f \in FailPoints(ensure_state_steps) : Run("ensure_state", <<>>, ensure_state_steps, f)
  /\ UNCHANGED entity

mapped(state) ==
  /\ lifecycle = "alive"
  /\ m_mapped' = IF m_mapped # state THEN state ELSE m_mapped
  /\ Run("mapped", <<state>>, <<>>, 0)
  /\ UNCHANGED <<m_size, m_pos, m_hidden, m_xembed_supported, m_xembed, m_bg_slice>>

\* Mutant: hiding also clears the mapped flag.
hidden_clears_mapped(state) ==
  /\ lifecycle = "alive"
  /\ m_hidden' = state
  /\ m_mapped' = IF state THEN FALSE ELSE m_mapped
  /\ Run("hidden", <<state>>, <<>>, 0)
  /\ UNCHANGED <<m_size, m_pos, m_xembed_supported, m_xembed, m_bg_slice>>

\* Mutant: hiding unmaps the windows at once.
hidden_unmaps_at_once(state) ==
  /\ lifecycle = "alive"
  /\ m_hidden' = state
  /\ Run("hidden", <<state>>,
         IF state THEN << UnmapReq(client), UnmapReq(embedder) >> ELSE <<>>, 0)
  /\ UNCHANGED <<m_size, m_pos, m_mapped, m_xembed_supported, m_xembed, m_bg_slice>>

hidden(state) ==
  /\ lifecycle = "alive"
  /\ m_hidden' = state
  /\ Run("hidden", <<state>>, <<>>, 0)
  /\ UNCHANGED <<m_size, m_pos, m_mapped, m_xembed_supported, m_xembed, m_bg_slice>>

\* Mutant: the icon is moved to (x, y) inside the embedder instead of (0, 0).
configure_steps_client_moved(x, y) ==
  << Req("configure_window", embedder, None, x, y, m_size.w, m_size.h, 0, TRUE),
     Req("configure_window", client, None, x, y, m_size.w, m_size.h, 0, TRUE) >>

configure_steps(x, y) ==
  << Req("configure_window", embedder, None, x, y, m_size.w, m_size.h, 0, TRUE),
     Req("configure_window", client, None, 0, 0, m_size.w, m_size.h, 0, TRUE) >>

\* Mutant: no early return when the position is the cached one.
set_position_no_early_return(x, y) ==
  /\ lifecycle = "alive"
  /\ LET slice == observe(0, 0, m_size.w % 65536, m_size.h % 65536, embedder,
                          m_bg_slice, ApplyAll(xsrv, configure_steps(x, y)))
         steps == configure_steps(x, y) \o observe_background_steps(slice)
     IN \E f \in FailPoints(steps) :
          /\ m_pos' = [x |-> x, y |-> y]
          /\ m_bg_slice' = IF HasOp(Issued(steps, f), "observe") THEN slice
                           ELSE m_bg_slice
          /\ Run("set_position", <<x, y>>, steps, f)
          /\ UNCHANGED <<m_size, m_mapped, m_hidden, m_xembed_supported, m_xembed>>

\* Mutant: the old background slice is repainted instead of a new one
\* being observed.
set_position_keeps_slice(x, y) ==
  /\ lifecycle = "alive"
  /\ LET new_pos == [x |-> x, y |-> y] IN
     IF new_pos = m_pos
       THEN /\ Run("set_position", <<x, y>>, <<>>, 0)
            /\ UNCHANGED entity
       ELSE LET steps == configure_steps(x, y) \o update_bg_steps(m_bg_slice)
            IN \E f \in FailPoints(steps) :
                 /\ m_pos' = new_pos
                 /\ Run("set_position", <<x, y>>, steps, f)
                 /\ UNCHANGED <<m_size, m_mapped, m_hidden, m_xembed_supported,
                                m_xembed, m_bg_slice>>

set_position(x, y) ==
  /\ lifecycle = "alive"
  /\ LET new_pos == [x |-> x, y |-> y] IN
     IF new_pos = m_pos
       THEN /\ Run("set_position", <<x, y>>, <<>>, 0)
            /\ UNCHANGED entity
       ELSE LET slice == observe(0, 0, m_size.w % 65536, m_size.h % 65536, embedder,
                                 m_bg_slice, ApplyAll(xsrv, configure_steps(x, y)))
                steps == configure_steps(x, y) \o observe_background_steps(slice)
            IN \E f \in FailPoints(steps) :
                 /\ m_pos' = new_pos
                 /\ m_bg_slice' = IF HasOp(Issued(steps, f), "observe") THEN slice
                                  ELSE m_bg_slice
                 /\ Run("set_position", <<x, y>>, steps, f)
                 /\ UNCHANGED <<m_size, m_mapped, m_hidden, m_xembed_supported, m_xembed>>

\* xembed::query: reads _XEMBED_INFO of the icon window; when the property is
\* there the info is replaced and the result is true, otherwise the info is
\* left alone and the result is false.
xembed_query(found, data, cached) ==
  [supported |-> found, info |-> IF found THEN data ELSE cached]

\* Mutant: once supported, always supported.
query_xembed_sticky(found, data) ==
  /\ lifecycle = "alive"
  /\ m_xembed_supported' = (m_xembed_supported \/ xembed_query(found, data, m_xembed).supported)
  /\ m_xembed' = xembed_query(found, data, m_xembed).info
  /\ Run("query_xembed", IF found THEN <<TRUE, data.version, data.mapped>> ELSE <<FALSE>>,
         << Req("get_property", client, "_XEMBED_INFO", 0, 0, 0, 0,
                IF found THEN 1 ELSE 0, FALSE) >>, 0)
  /\ UNCHANGED <<m_size, m_pos, m_mapped, m_hidden, m_bg_slice>>

query_xembed(found, data) ==
  /\ lifecycle = "alive"
  /\ m_xembed_supported' = xembed_query(found, data, m_xembed).supported
  /\ m_xembed' = xembed_query(found, data, m_xembed).info
  /\ Run("query_xembed", IF found THEN <<TRUE, data.version, data.mapped>> ELSE <<FALSE>>,
         << Req("get_property", client, "_XEMBED_INFO", 0, 0, 0, 0,
                IF found THEN 1 ELSE 0, FALSE) >>, 0)
  /\ UNCHANGED <<m_size, m_pos, m_mapped, m_hidden, m_bg_slice>>

\* xembed::notify_embedded: one XEMBED_EMBEDDED_NOTIFY client message.
notify_embedded_steps(win, embedder_win, version) ==
  << Req("xembed_embedded_notify", win, embedder_win, 0, 0, 0, 0, version, TRUE) >>

\* Mutant: the notification is sent whether or not XEMBED is supported.
notify_xembed_steps_always ==
  notify_embedded_steps(client, embedder, m_xembed.version)

notify_xembed_steps ==
  IF is_xembed_supported
    THEN notify_embedded_steps(client, embedder, m_xembed.version)
    ELSE <<>>

notify_xembed ==
  /\ lifecycle = "alive"
  /\ \E f \in FailPoints(notify_xembed_steps) : Run("notify_xembed", <<>>, notify_xembed_steps, f)
  /\ UNCHANGED entity

reparent_steps ==
  << Req("reparent_window", client, embedder, 0, 0, 0, 0, 0, TRUE) >>

reparent ==
  /\ lifecycle = "alive"
  /\ \E f \in FailPoints(reparent_steps) : Run("reparent", <<>>, reparent_steps, f)
  /\ UNCHANGED entity

add_to_save_set_steps ==
  << Req("change_save_set", client, None, 0, 0, 0, 0, 0, TRUE) >>

add_to_save_set ==
  /\ lifecycle = "alive"
  /\ \E f \in FailPoints(add_to_save_set_steps) :
       Run("add_to_save_set", <<>>, add_to_save_set_steps, f)
  /\ UNCHANGED entity

update_client_attributes_steps ==
  << Req("change_window_attributes", client, "event_mask", 0, 0, 0, 0, 0, TRUE) >>

update_client_attributes ==
  /\ lifecycle = "alive"
  /\ \E f \in FailPoints(update_client_attributes_steps) :
       Run("update_client_attributes", <<>>, update_client_attributes_steps, f)
  /\ UNCHANGED entity

configure_notify_steps ==
  << Req("send_event", client, "configure_notify", 0, 0, m_size.w, m_size.h, 0, TRUE) >>

configure_notify ==
  /\ lifecycle = "alive"
  /\ \E f \in FailPoints(configure_notify_steps) :
       Run("configure_notify", <<>>, configure_notify_steps, f)
  /\ UNCHANGED entity

update_bg ==
  /\ lifecycle = "alive"
  /\ \E f \in FailPoints(update_bg_steps(m_bg_slice)) :
       Run("update_bg", <<>>, update_bg_steps(m_bg_slice), f)
  /\ UNCHANGED entity

\* xembed::unembed: hands the icon window back to the given parent; a failure
\* of the request stays inside unembed.
unembed_steps(win, root) ==
  << Req("reparent_window", win, root, 0, 0, 0, 0, 0, TRUE) >>

\* The requests of the destructor when the unembed request fails (ufail) and
\* when the unchecked destroy request fails (dfail): neither failure throws.
destructor_steps(ufail, dfail) ==
  (IF client # None
     THEN << [unembed_steps(client, Root)[1] EXCEPT !.ok = ~ufail] >>
     ELSE <<>>)
  \o (IF embedder # None
        THEN << [Req("destroy_window", embedder, None, 0, 0, 0, 0, 0, FALSE)
                   EXCEPT !.ok = ~dfail] >>
        ELSE <<>>)

\* Mutant: a failure of unembed leaves the destructor as an exception.
destructor_stops_on_failure ==
  /\ lifecycle = "alive"
  /\ lifecycle' = "destroyed"
  /\ \E ufail \in BOOLEAN, dfail \in BOOLEAN :
       /\ log' = IF ufail THEN SubSeq(destructor_steps(ufail, dfail), 1, 1)
                          ELSE destructor_steps(ufail, dfail)
       /\ threw' = ufail
       /\ xsrv' = ApplyAll(xsrv, log')
  /\ lastOp' = "destructor"
  /\ args' = <<>>
  /\ UNCHANGED entity

\* Mutant: the destruction path also runs after a failed construction.
destructor_after_failed_construction ==
  /\ lifecycle \in {"alive", "failed"}
  /\ lifecycle' = "destroyed"
  /\ \E ufail \in BOOLEAN, dfail \in BOOLEAN :
       /\ log' = destructor_steps(ufail, dfail)
       /\ xsrv' = ApplyAll(xsrv, destructor_steps(ufail, dfail))
  /\ threw' = FALSE
  /\ lastOp' = "destructor"
  /\ args' = <<>>
  /\ UNCHANGED entity

\* ~tray_client: runs for a constructed entity only (the destructor of an
\* object whose constructor threw is never called).
destructor ==
  /\ lifecycle = "alive"
  /\ lifecycle' = "destroyed"
  /\ \E ufail \in BOOLEAN, dfail \in BOOLEAN :
       /\ log' = destructor_steps(ufail, dfail)
       /\ xsrv' = ApplyAll(xsrv, destructor_steps(ufail, dfail))
  /\ threw' = FALSE
  /\ lastOp' = "destructor"
  /\ args' = <<>>
  /\ UNCHANGED entity

XembedInfos == [version : Versions, mapped : BOOLEAN]

Next ==
  \/ ensure_state
  \/ \E state \in BOOLEAN : mapped(state)
  \/ \E state \in BOOLEAN : hidden(state)
  \/ \E p \in TwoPositions : set_position(p.x, p.y)
  \/ \E found \in BOOLEAN, data \in XembedInfos : query_xembed(found, data)
  \/ notify_xembed
  \/ reparent
  \/ add_to_save_set
  \/ update_client_attributes
  \/ configure_notify
  \/ update_bg

Spec == Init /\ [][Next]_vars

\* The geometry operations alone, over every size and position.
NextGeom ==
  \/ \E p \in Positions : set_position(p.x, p.y)
  \/ reparent
  \/ configure_notify
  \/ update_bg

SpecGeom == InitGeom /\ [][NextGeom]_vars

\* Construction (which may fail), a few operations, destruction.
NextLife ==
  \/ ensure_state
  \/ reparent
  \/ \E p \in TwoPositions : set_position(p.x, p.y)
  \/ destructor

SpecLife == InitGeom /\ [][NextLife]_vars

(* ======================================================================= *)
(* Properties                                                              *)
(* ======================================================================= *)
IsMapUnmap(r) == r.op \in {"map_window", "unmap_window"}
NoMapUnmap(reqs) == \A i \in 1 .. Len(reqs) : ~IsMapUnmap(reqs[i])

FirstIndex(reqs, op, win) ==
  IF \E i \in 1 .. Len(reqs) : reqs[i].op = op /\ reqs[i].win = win
    THEN CHOOSE i \in 1 .. Len(reqs) :
           /\ reqs[i].op = op /\ reqs[i].win = win
           /\ \A j \in 1 .. i - 1 : ~(reqs[j].op = op /\ reqs[j].win = win)
    ELSE 0

\* C5: in one ensure_state call, a map request for the icon is preceded by a
\* successful map request for the embedder, an unmap request for the embedder
\* is preceded by a successful unmap request for the icon, and map and unmap
\* requests are never mixed; the requests are map requests exactly when
\* should_be_mapped holds.
C5_RequestOrder ==
  (lastOp = "ensure_state")
    => /\ FirstIndex(log, "map_window", Client) # 0
            => /\ FirstIndex(log, "map_window", Wrapper) # 0
               /\ FirstIndex(log, "map_window", Wrapper) < FirstIndex(log, "map_window", Client)
               /\ log[FirstIndex(log, "map_window", Wrapper)].ok
       /\ FirstIndex(log, "unmap_window", Wrapper) # 0
            => /\ FirstIndex(log, "unmap_window", Client) # 0
               /\ FirstIndex(log, "unmap_window", Client) < FirstIndex(log, "unmap_window", Wrapper)
               /\ log[FirstIndex(log, "unmap_window", Client)].ok
       /\ ~(HasOp(log, "map_window") /\ HasOp(log, "unmap_window"))
       /\ HasOp(log, "map_window") => should_be_mapped
       /\ HasOp(log, "unmap_window") => ~should_be_mapped
       /\ log # <<>> => log[1].win = (IF should_be_mapped THEN Wrapper ELSE Client)

C5_Witness ==
  /\ lastOp = "ensure_state"
  /\ ~threw
  /\ log = << MapReq(Wrapper), MapReq(Client) >>
  /\ xsrv.mapped[Wrapper]
  /\ xsrv.mapped[Client]

\* C6: should_be_mapped is false when hidden is set; otherwise it is the
\* cached XEMBED mapped bit when XEMBED is supported; otherwise it is true.
\* XEMBED is unsupported right after construction (never queried) and after
\* a query that found no _XEMBED_INFO property.
C6_VisibilityPolicy ==
  (lifecycle = "alive")
    => /\ m_hidden => ~should_be_mapped
       /\ (~m_hidden /\ m_xembed_supported) => (should_be_mapped <=> m_xembed.mapped)
       /\ (~m_hidden /\ ~m_xembed_supported) => should_be_mapped
       /\ (lastOp = "construct") => should_be_mapped
       /\ (lastOp = "query_xembed" /\ args = <<FALSE>> /\ ~m_hidden) => should_be_mapped

C6_Witness ==
  /\ lifecycle = "alive"
  /\ ~m_hidden
  /\ m_xembed_supported
  /\ ~m_xembed.mapped
  /\ ~should_be_mapped

Count(reqs, op) == Cardinality({i \in 1 .. Len(reqs) : reqs[i].op = op})
GeomPos(g) == [x |-> g.x, y |-> g.y]
ArgPos(a) == [x |-> a[1], y |-> a[2]]

\* C7: a set_position call whose arguments are the cached position issues no
\* request at all, does not throw and leaves the cached position, the slice
\* and the X server as they were; a set_position call that repeats the
\* arguments of the set_position call just before it issues nothing.
C7_SamePositionIsNoOp ==
  [][(lastOp' = "set_position")
       => /\ (ArgPos(args') = m_pos)
               => /\ log' = <<>>
                  /\ ~threw'
                  /\ m_pos' = m_pos
                  /\ m_bg_slice' = m_bg_slice
                  /\ xsrv' = xsrv
          /\ (lastOp = "set_position" /\ args' = args) => log' = <<>>]_vars

C7_Witness ==
  /\ lastOp = "set_position"
  /\ log = <<>>
  /\ ArgPos(args) = m_pos
  /\ m_pos # Origin
  /\ GeomPos(xsrv.geom[Wrapper]) = m_pos

\* C8: a set_position call whose arguments differ from the cached position
\* stores the arguments as the cached position (before any request: also when
\* a request fails); when no request fails it then configures the embedder
\* to (x, y) at the target size, configures the icon to (0, 0) at the target
\* size, observes exactly one new slice, stores it, and composites exactly
\* once, with the new slice.
C8_ChangedPositionSequence ==
  [][(lastOp' = "set_position" /\ ArgPos(args') # m_pos)
       => /\ m_pos' = ArgPos(args')
          /\ ~threw'
               => /\ Len(log') = 10
                  /\ log'[1].op = "configure_window" /\ log'[1].win = Wrapper
                  /\ log'[1].x = args'[1] /\ log'[1].y = args'[2]
                  /\ log'[1].w = m_size.w /\ log'[1].h = m_size.h
                  /\ log'[2].op = "configure_window" /\ log'[2].win = Client
                  /\ log'[2].x = 0 /\ log'[2].y = 0
                  /\ log'[2].w = m_size.w /\ log'[2].h = m_size.h
                  /\ log'[3].op = "observe" /\ Count(log', "observe") = 1
                  /\ m_bg_slice' # m_bg_slice /\ m_bg_slice'.id = log'[3].arg
                  /\ log'[4].op = "context_clear" /\ Count(log', "context_clear") = 1
                  /\ log'[5].op = "paint_slice_SOURCE" /\ log'[5].arg = m_bg_slice'.id
                  /\ Count(log', "paint_slice_SOURCE") = 1
                  /\ log'[10].op = "flush" /\ Count(log', "flush") = 1
                  /\ xsrv'.geom[Wrapper] = [x |-> args'[1], y |-> args'[2],
                                            w |-> m_size.w, h |-> m_size.h]
                  /\ xsrv'.geom[Client] = [x |-> 0, y |-> 0,
                                           w |-> m_size.w, h |-> m_size.h]]_vars

C8_Witness ==
  /\ lastOp = "set_position"
  /\ ~threw
  /\ Len(log) = 10
  /\ m_pos = ArgPos(args)
  /\ args[2] # 0
  /\ GeomPos(xsrv.geom[Wrapper]) = m_pos

\* C9 (as stated): after a successful construction and after every
\* set_position call that returned, the embedder and the icon window have the
\* same width and the same height.
C9_SizesAlwaysEqual ==
  (lifecycle = "alive" /\ lastOp \in {"construct", "set_position"} /\ ~threw)
    => /\ xsrv.geom[Client].w = xsrv.geom[Wrapper].w
       /\ xsrv.geom[Client].h = xsrv.geom[Wrapper].h

\* C10: a constructed entity always holds a slice, observed for the rectangle
\* (0, 0, width, height) of the embedder; and a set_position call that changes
\* the position and returns normally leaves a slice that is not the one held
\* before and that was observed, after the embedder was configured, with the
\* embedder at the new position.
C10_SliceFresh ==
  /\ [](lifecycle = "alive"
          => /\ m_bg_slice # NoSlice /\ m_bg_slice.id # 0
             /\ m_bg_slice.win = Wrapper
             /\ m_bg_slice.x = 0 /\ m_bg_slice.y = 0
             /\ m_bg_slice.w = m_size.w /\ m_bg_slice.h = m_size.h)
  /\ [][(lastOp' = "set_position" /\ ArgPos(args') # m_pos /\ ~threw')
          => /\ m_bg_slice'.id # m_bg_slice.id
             /\ m_bg_slice'.at = ArgPos(args')
             /\ m_bg_slice'.at = GeomPos(xsrv'.geom[Wrapper])
             /\ FirstIndex(log', "configure_window", Wrapper) # 0
             /\ FirstIndex(log', "observe", Wrapper)
                  > FirstIndex(log', "configure_window", Wrapper)]_vars

C10_Witness ==
  /\ lastOp = "set_position"
  /\ ~threw
  /\ m_bg_slice.at # Origin
  /\ m_bg_slice.at = m_pos
  /\ m_bg_slice.id = 2

IndexOf(reqs, op) ==
  IF HasOp(reqs, op) THEN CHOOSE i \in 1 .. Len(reqs) :
                            reqs[i].op = op /\ \A j \in 1 .. i - 1 : reqs[j].op # op
  ELSE 0
CtorChecked == <<"create_window", "create_pixmap", "change_window_attributes",
                 "create_gc", "visual_type_for_id">>

\* C12: a construction fails exactly when one of its requests fails (or the
\* visual is not found); the failing step is the last step executed; when
\* create_pixmap, change_window_attributes, create_gc or the visual lookup
\* fails no slice was observed, nothing was composited and no slice is held;
\* and a slice is observed only after all of these steps succeeded, in the
\* order of the source.
C12_ConstructionAborts ==
  (lastOp = "construct")
    => /\ (lifecycle = "failed") <=> threw
       /\ threw <=> (\E i \in 1 .. Len(log) : ~log[i].ok)
       /\ \A i \in 1 .. Len(log) : ~log[i].ok => i = Len(log)
       /\ \A k \in 2 .. 5 :
            (HasOp(log, CtorChecked[k]) /\ ~log[IndexOf(log, CtorChecked[k])].ok)
              => /\ threw
                 /\ ~HasOp(log, "observe")
                 /\ ~HasOp(log, "context_clear")
                 /\ ~HasOp(log, "clear_area")
                 /\ m_bg_slice = NoSlice
                 /\ \A j \in k + 1 .. 5 : ~HasOp(log, CtorChecked[j])
       /\ HasOp(log, "observe")
            => \A k \in 1 .. 5 :
                 /\ HasOp(log, CtorChecked[k])
                 /\ log[IndexOf(log, CtorChecked[k])].ok
                 /\ IndexOf(log, CtorChecked[k]) < IndexOf(log, "observe")
                 /\ k < 5 => IndexOf(log, CtorChecked[k]) < IndexOf(log, CtorChecked[k + 1])

C12_Witness ==
  /\ lastOp = "construct"
  /\ lifecycle = "failed"
  /\ threw
  /\ log[Len(log)].op = "create_gc"
  /\ m_bg_slice = NoSlice
  /\ {Wrapper, "pixmap"} \subseteq xsrv.res

ReleaseOps == {"destroy_window", "free_pixmap", "free_gc", "reparent_window"}
CreatedBy(reqs) ==
  {reqs[i].win : i \in {j \in 1 .. Len(reqs) : reqs[j].op = "create_window" /\ reqs[j].ok}}
  \cup {reqs[i].aux : i \in {j \in 1 .. Len(reqs) :
                              reqs[j].op \in {"create_pixmap", "create_gc"} /\ reqs[j].ok}}

\* C20: after a failed construction the constructor has issued no destroy,
\* free or unembed request, every resource a successful request created is
\* still allocated, and no operation (the destructor in particular) runs on
\* the entity afterwards.
C20_FailedConstructionReleasesNothing ==
  /\ [](lifecycle = "failed"
          => /\ lastOp = "construct"
             /\ threw
             /\ \A i \in 1 .. Len(log) : log[i].op \notin ReleaseOps
             /\ xsrv.res = CreatedBy(log)
             /\ HasOp(log, "create_pixmap") => Wrapper \in xsrv.res)
  /\ [][lifecycle # "failed"]_vars

C20_Witness ==
  /\ lifecycle = "failed"
  /\ log[Len(log)].op = "visual_type_for_id"
  /\ xsrv.res = {Wrapper, "pixmap", "gc"}

\* C13: a hidden(b) call issues no request, does not throw, stores b in the
\* hidden flag and changes nothing else, in the entity or on the X server;
\* the map state of the two windows changes in ensure_state calls only.
C13_HiddenIsPureSetter ==
  [][/\ (lastOp' = "hidden")
          => /\ log' = <<>>
             /\ ~threw'
             /\ m_hidden' = args'[1]
             /\ xsrv' = xsrv
             /\ UNCHANGED <<m_size, m_pos, m_mapped, m_xembed_supported, m_xembed,
                            m_bg_slice>>
     /\ (xsrv'.mapped # xsrv.mapped) => lastOp' = "ensure_state"]_vars

C13_Witness ==
  /\ lastOp = "hidden"
  /\ args = <<TRUE>>
  /\ m_hidden
  /\ m_mapped
  /\ xsrv.mapped[Client]
  /\ xsrv.mapped[Wrapper]

\* C14: XEMBED is unsupported after construction and the supported flag
\* changes in query_xembed calls only; a query_xembed call never throws,
\* sets the flag to whether the property was found whatever it was before,
\* stores the info read when it was found, and leaves hidden, the mapped
\* flag, the position, the size and the slice alone; after a query that
\* found no property is_xembed_supported is false and, unless hidden,
\* should_be_mapped is true.
C14_ProtocolStateMachine ==
  /\ []((lastOp = "construct" /\ lifecycle = "alive") => ~is_xembed_supported)
  /\ [][/\ (lastOp' = "query_xembed")
             => /\ ~threw'
                /\ is_xembed_supported' = args'[1]
                /\ args'[1] => m_xembed' = [version |-> args'[2], mapped |-> args'[3]]
                /\ UNCHANGED <<m_hidden, m_mapped, m_pos, m_size, m_bg_slice>>
                /\ (~args'[1] /\ ~m_hidden) => should_be_mapped'
        /\ (m_xembed_supported' # m_xembed_supported) => lastOp' = "query_xembed"]_vars

C14_Witness ==
  /\ lastOp = "query_xembed"
  /\ args = <<FALSE>>
  /\ ~is_xembed_supported
  /\ m_xembed = [version |-> MaxVersion, mapped |-> FALSE]
  /\ ~m_hidden
  /\ should_be_mapped

\* C15: a notify_xembed call changes nothing in the entity; when XEMBED is
\* supported it issues exactly one embedded notification, to the icon window,
\* naming the embedder and the cached version; when it is not supported it
\* issues nothing.  The cached info changes only in a query_xembed call that
\* found the property, and is then the info read, so the version sent is
\* that of the latest successful query.
C15_NotifyIffSupported ==
  [][/\ (lastOp' = "notify_xembed")
          => /\ UNCHANGED entity
             /\ IF is_xembed_supported
                  THEN /\ Len(log') = 1
                       /\ log'[1].op = "xembed_embedded_notify"
                       /\ log'[1].win = Client
                       /\ log'[1].aux = Wrapper
                       /\ log'[1].arg = m_xembed.version
                       /\ (lastOp = "query_xembed") => log'[1].arg = args[2]
                  ELSE log' = <<>> /\ ~threw'
     /\ (m_xembed' # m_xembed)
          => /\ lastOp' = "query_xembed"
             /\ args'[1]
             /\ m_xembed'.version = args'[2]]_vars

C15_Witness ==
  /\ lastOp = "notify_xembed"
  /\ is_xembed_supported
  /\ Len(log) = 1
  /\ log[1].ok
  /\ log[1].arg = MaxVersion
  /\ m_xembed.version = MaxVersion

OtherOps == {"hidden", "query_xembed", "set_position", "reparent", "notify_xembed",
             "configure_notify", "add_to_save_set", "update_client_attributes",
             "update_bg"}

\* C16: after a successful construction width and height are the size given
\* to the constructor, and no operation changes them; the stored mapped flag
\* is false after construction and stays false through every hidden, query,
\* set_position, reparent and notify call (and through ensure_state calls
\* too).
C16_SizeStoredFlagInitiallyFalse ==
  /\ []((lastOp = "construct" /\ lifecycle = "alive")
          => (width = args[1] /\ height = args[2] /\ ~mapped_get))
  /\ [][/\ width' = width
        /\ height' = height
        /\ (~mapped_get /\ lastOp' \in OtherOps \cup {"ensure_state"}) => ~mapped_get']_vars

C16_Witness ==
  /\ lastOp = "notify_xembed"
  /\ ~mapped_get
  /\ m_hidden
  /\ m_pos # Origin
  /\ xsrv.parent[Client] = Wrapper
  /\ width = MaxDim

CompositeOps == <<"context_clear", "paint_slice_SOURCE", "paint_color_OVER",
                  "surface_flush", "clear_area", "clear_area", "flush">>

\* C17: wherever a composite starts in the requests of an operation, its
\* steps follow in the order clear surface, paint slice (replace), paint
\* colour (over), flush surface, clear_area on the embedder without
\* exposures, clear_area on the icon with exposures, flush connection; it is
\* cut short only by a failing request; the slice painted is the one held;
\* and no clear_area with exposures is ever issued on the embedder.
C17_CompositeOrder ==
  /\ \A i \in 1 .. Len(log) :
       /\ (log[i].op = "context_clear")
            => /\ \A k \in 1 .. 7 :
                    IF i + k - 1 <= Len(log)
                      THEN log[i + k - 1].op = CompositeOps[k]
                      ELSE ~log[Len(log)].ok
               /\ (i + 1 <= Len(log)) => log[i + 1].arg = m_bg_slice.id
               /\ (i + 4 <= Len(log)) => (log[i + 4].win = Wrapper /\ log[i + 4].arg = 0)
               /\ (i + 5 <= Len(log)) => (log[i + 5].win = Client /\ log[i + 5].arg = 1)
       /\ (log[i].op = "clear_area" /\ log[i].win = Wrapper) => log[i].arg = 0
       /\ (log[i].op \in {"paint_slice_SOURCE", "flush"}) => HasOp(log, "context_clear")
  /\ (lastOp = "update_bg" /\ ~threw) => Len(log) = 7
  /\ Count(log, "context_clear") <= 1

C17_Witness ==
  /\ lastOp = "update_bg"
  /\ ~threw
  /\ Len(log) = 7
  /\ log[5].op = "clear_area" /\ log[5].win = Wrapper /\ log[5].arg = 0
  /\ log[6].op = "clear_area" /\ log[6].win = Client /\ log[6].arg = 1
  /\ m_pos # Origin

\* C18 (as stated): the cached position of a constructed entity is the
\* position of the embedder window, also after set_position calls in which
\* a configure request failed.
C18_CachedPositionIsActual ==
  (lifecycle = "alive") => (m_pos = GeomPos(xsrv.geom[Wrapper]))

\* C19: the icon window is mapped only if the embedder window is mapped, in
\* every state reached by the entity's operations, whichever requests fail.
C19_IconMappedOnlyInMappedEmbedder ==
  xsrv.mapped[Client] => xsrv.mapped[Wrapper]

C19_Witness ==
  /\ lastOp = "ensure_state"
  /\ threw
  /\ Len(log) = 2
  /\ log[2] = [UnmapReq(Wrapper) EXCEPT !.ok = FALSE]
  /\ ~xsrv.mapped[Client]
  /\ xsrv.mapped[Wrapper]

====
